---- MODULE Spec2Model ----
(***************************************************************************)
(* HA Snapshot (custom_components/ha_snapshot): the import service         *)
(* handle_import_data and the export builder gather_ha_data, modelled as   *)
(* a state machine over the host's entity, device and area registries.     *)
(*                                                                         *)
(* Python values are encoded so that values of different Python types are  *)
(* still comparable:                                                       *)
(*   - None is the string None; a str is a string;                         *)
(*   - a JSON value that may or may not be a list is a record              *)
(*     [kind, items] (JNull, JList(s), JStr);                              *)
(*   - a JSON value that should be a mapping is a record with kind "obj",  *)
(*     or kind "bad" when it is anything without a .get method;            *)
(*   - a dict is a function whose DOMAIN is its key set.                   *)
(***************************************************************************)
EXTENDS Integers, Sequences, FiniteSets, TLC

VARIABLES
    entities,       \* entity_registry.entities : entity_id -> RegistryEntry
    devices,        \* device_registry.devices  : device_id -> DeviceEntry
    areas,          \* area_registry.areas      : area_id   -> AreaEntry
    calls,          \* one record per scheduled handle_import_data coroutine
    export          \* outcome of the last gather_ha_data run

vars == <<entities, devices, areas, calls, export>>

(***************************************************************************)
(* Python helpers                                                          *)
(***************************************************************************)
None == "<None>"

\* const.py: DOMAIN = "ha_snapshot"
DOMAIN_KEY == "ha_snapshot"

\* truthiness of a str-or-None value (`if not x`)
Truthy(x) == x \notin {None, ""}

EmptyDict == [k \in {} |-> <<>>]

\* dict.get(k, default)
DictGet(d, k, default) == IF k \in DOMAIN d THEN d[k] ELSE default

\* d[k] = v on a copy
DictPut(d, k, v) == [x \in (DOMAIN d) \cup {k} |-> IF x = k THEN v ELSE d[x]]

JNull == [kind |-> "null", items |-> <<>>]
JList(s) == [kind |-> "list", items |-> s]
JStr == [kind |-> "str", items |-> <<>>]

\* `if new_labels and isinstance(new_labels, list)`
IsNonEmptyList(v) == v.kind = "list" /\ v.items # <<>>

(***************************************************************************)
(* The entity registry as handle_import_data uses it                       *)
(***************************************************************************)
\* entity_registry.entities.get(ent_id): the entry, or None (reported here
\* as "no entry") when the id is unknown
HasEntity(reg, ent_id) == ent_id \in DOMAIN reg

\* entity_registry.async_update_entity(ent_id, **updated_args): the host's
\* partial update; only the fields passed are replaced
async_update_entity(reg, ent_id, updated_args) ==
    [reg EXCEPT ![ent_id] =
        [@ EXCEPT !.name = IF updated_args.has_name THEN updated_args.name ELSE @,
                  !.options = IF updated_args.has_options
                              THEN updated_args.options ELSE @]]

(***************************************************************************)
(* handle_import_data: the loop body, lines 218-249                        *)
(***************************************************************************)
\* `if new_name and new_name != reg_entry.name`
StageName(ent, reg_entry) == Truthy(ent.name) /\ ent.name # reg_entry.name

\* `if new_labels and isinstance(new_labels, list)`
StageLabels(ent, reg_entry) == IsNonEmptyList(ent.labels)

\* a variant that builds the options afresh instead of copying the entry's
StagedOptions_Overwrite(options, new_labels) ==
    DictPut(EmptyDict, DOMAIN_KEY, DictPut(EmptyDict, "labels", new_labels))

\* cur_options = dict(reg_entry.options); cur_options.setdefault(DOMAIN, {});
\* cur_options[DOMAIN]["labels"] = new_labels
StagedOptions(options, new_labels) ==
    DictPut(options, DOMAIN_KEY,
            DictPut(DictGet(options, DOMAIN_KEY, EmptyDict), "labels", new_labels))

\* dict(reg_entry.options) is a shallow copy: when reg_entry.options already
\* holds DOMAIN, cur_options[DOMAIN] is the live entry's own inner dict and
\* the assignment of "labels" writes into the live entry at once, before
\* async_update_entity is called.
WriteThrough(reg, ent_id, new_labels) ==
    IF DOMAIN_KEY \in DOMAIN reg[ent_id].options
    THEN [reg EXCEPT ![ent_id].options = StagedOptions(@, new_labels)]
    ELSE reg

\* a variant that forgets to count the record
NotInRegistry_Uncounted(st, ent) ==
    [st EXCEPT !.lookups = Append(@, ent.entity_id)]

\* `if not reg_entry: changes_skipped += 1; continue`
NotInRegistry(st, ent) ==
    [st EXCEPT !.changes_skipped = @ + 1,
               !.lookups = Append(@, ent.entity_id)]

\* One iteration of `for ent in entities`. st is the coroutine's local state
\* together with the registry; fail_at is the ordinal of the
\* async_update_entity call that raises (0: none does).
ProcessLeaf(st, ent, fail_at) ==
    IF ent.kind # "obj"
    THEN [st EXCEPT !.raised = TRUE]                    \* ent.get raises
    ELSE IF ~Truthy(ent.entity_id)
    THEN [st EXCEPT !.changes_skipped = @ + 1]
    ELSE IF ~HasEntity(st.reg, ent.entity_id)
    THEN NotInRegistry(st, ent)
    ELSE LET ent_id == ent.entity_id
             reg_entry == st.reg[ent_id]
             sn == StageName(ent, reg_entry)
             sl == StageLabels(ent, reg_entry)
             updated_args ==
                 [has_name |-> sn, name |-> ent.name,
                  has_options |-> sl,
                  options |-> IF sl THEN StagedOptions(reg_entry.options, ent.labels.items)
                              ELSE EmptyDict]
             reg1 == IF sl THEN WriteThrough(st.reg, ent_id, ent.labels.items) ELSE st.reg
             st1 == [st EXCEPT !.lookups = Append(@, ent_id), !.reg = reg1]
         IN  IF sn \/ sl
             THEN IF Len(st.attempts) + 1 = fail_at
                  THEN [st1 EXCEPT !.raised = TRUE,
                                   !.attempts = Append(@, ent_id)]
                  ELSE [st1 EXCEPT !.reg = async_update_entity(reg1, ent_id, updated_args),
                                   !.attempts = Append(@, ent_id),
                                   !.updates = Append(@, ent_id),
                                   !.changes_applied = @ + 1]
             ELSE [st1 EXCEPT !.changes_skipped = @ + 1]

(***************************************************************************)
(* handle_import_data: the four nested loops, lines 210-217.  The order in *)
(* which leaf records are reached is the document order; a value that is   *)
(* not a mapping (x.get raises AttributeError) or a collection that is not *)
(* iterable (the for raises TypeError) raises when the loops reach it.     *)
(***************************************************************************)
RaiseHere == [kind |-> "bad", entity_id |-> None, name |-> None, labels |-> JNull]

RECURSIVE LeafEvents(_)
LeafEvents(items) ==
    IF items = <<>> THEN <<>> ELSE <<Head(items)>> \o LeafEvents(Tail(items))

\* `entities = dev.get("entities", [])`, `for ent in entities`
DeviceEvents(dev) ==
    IF dev.kind # "obj" THEN <<RaiseHere>>
    ELSE CASE dev.entities.kind = "absent" -> <<>>
           [] dev.entities.kind = "list" -> LeafEvents(dev.entities.items)
           [] OTHER -> <<RaiseHere>>

RECURSIVE DevicesEvents(_)
DevicesEvents(items) ==
    IF items = <<>> THEN <<>> ELSE DeviceEvents(Head(items)) \o DevicesEvents(Tail(items))

\* `devices = area.get("devices", [])`, `for dev in devices`
AreaEvents(area) ==
    IF area.kind # "obj" THEN <<RaiseHere>>
    ELSE CASE area.devices.kind = "absent" -> <<>>
           [] area.devices.kind = "list" -> DevicesEvents(area.devices.items)
           [] OTHER -> <<RaiseHere>>

RECURSIVE AreasEvents(_)
AreasEvents(items) ==
    IF items = <<>> THEN <<>> ELSE AreaEvents(Head(items)) \o AreasEvents(Tail(items))

\* `areas = floor.get("areas", [])`, `for area in areas`
FloorEvents(floor) ==
    IF floor.kind # "obj" THEN <<RaiseHere>>
    ELSE CASE floor.areas.kind = "absent" -> <<>>
           [] floor.areas.kind = "list" -> AreasEvents(floor.areas.items)
           [] OTHER -> <<RaiseHere>>

RECURSIVE FloorsEvents(_)
FloorsEvents(items) ==
    IF items = <<>> THEN <<>> ELSE FloorEvents(Head(items)) \o FloorsEvents(Tail(items))

\* `floors = parsed.get("floors", [])`, `for floor in floors`
Traversal(parsed) ==
    IF parsed.kind # "obj" THEN <<RaiseHere>>
    ELSE CASE parsed.floors.kind = "absent" -> <<>>
           [] parsed.floors.kind = "list" -> FloorsEvents(parsed.floors.items)
           [] OTHER -> <<RaiseHere>>

\* The loops run from event `from` up to (not including) event `upto`, and
\* stop at the first exception.
RECURSIVE RunLoop(_, _, _, _, _)
RunLoop(st, events, from, upto, fail_at) ==
    IF from >= upto \/ from > Len(events) \/ st.raised
    THEN st
    ELSE RunLoop([ProcessLeaf(st, events[from], fail_at) EXCEPT !.idx = from + 1],
                 events, from + 1, upto, fail_at)

\* a variant in which the loop body awaits, so that the coroutine is
\* suspended after every record
NextSuspension_EveryRecord(events, from) == from + 1

\* Lines 209-249 hold no await: once the loops start, the coroutine is not
\* suspended before they end.  The position at which a coroutine that is at
\* event `from` is next suspended is therefore past the last event.
NextSuspension(events, from) == Len(events) + 1

(***************************************************************************)
(* handle_import_data as a coroutine, lines 160-276                        *)
(***************************************************************************)
\* json.loads(import_json): raises on text that is not JSON, otherwise
\* returns the value the text denotes
JsonRaises(text) == text.kind = "garbage"
json_loads(text) == text.doc

IdleCall ==
    [pc |-> "idle", import_json |-> [kind |-> "missing", doc |-> [kind |-> "bad", floors |-> [kind |-> "absent", items |-> <<>>]]],
     notify |-> FALSE, fail_at |-> 0, idx |-> 1,
     changes_applied |-> 0, changes_skipped |-> 0, raised |-> FALSE,
     lookups |-> <<>>, attempts |-> <<>>, updates |-> <<>>,
     outcome |-> "pending", notification |-> "none", before |-> EmptyDict,
     started |-> 0]

\* call.data of a new service call; `before` keeps the registry the call
\* found and `started` the call's place in the order of the service calls
NewCall(data, reg) ==
    [IdleCall EXCEPT !.pc = "called", !.import_json = data.import_json,
                     !.notify = data.notify, !.fail_at = data.fail_at,
                     !.before = reg,
                     !.started = 1 + Cardinality({u \in DOMAIN calls :
                                                    calls[u].pc # "idle"})]

\* every exit of the handler: `if notify_user: await ...async_call(...)`,
\* then return
Exit(c, outcome) ==
    [c EXCEPT !.outcome = outcome,
              !.pc = IF c.notify THEN "await_notify" ELSE "returned"]

\* the registry and the handler's locals, as the loops see them
LoopState(reg, c) ==
    [reg |-> reg, idx |-> c.idx, raised |-> FALSE,
     changes_applied |-> c.changes_applied,
     changes_skipped |-> c.changes_skipped,
     lookups |-> c.lookups, attempts |-> c.attempts, updates |-> c.updates]

\* The coroutine of task t runs from where it stands to its next await or to
\* its return.  A task that is idle is started by a service call whose
\* call.data is one of service_calls.
handle_import_data(t, service_calls) ==
    /\ calls[t].pc \in {"idle", "in_loop"}
    /\ \E data \in service_calls :
       LET c == IF calls[t].pc = "idle" THEN NewCall(data, entities) ELSE calls[t]
       IN  IF c.pc = "called" /\ c.import_json.kind = "missing"
           THEN /\ calls' = [calls EXCEPT ![t] = Exit(c, "no_input")]
                /\ UNCHANGED entities
           ELSE IF c.pc = "called" /\ JsonRaises(c.import_json)
           THEN /\ calls' = [calls EXCEPT ![t] = Exit(c, "parse_error")]
                /\ UNCHANGED entities
           ELSE LET events == Traversal(json_loads(c.import_json))
                    st == RunLoop(LoopState(entities, c), events, c.idx,
                                  NextSuspension(events, c.idx), c.fail_at)
                    c1 == [c EXCEPT !.idx = st.idx, !.raised = st.raised,
                                    !.changes_applied = st.changes_applied,
                                    !.changes_skipped = st.changes_skipped,
                                    !.lookups = st.lookups,
                                    !.attempts = st.attempts,
                                    !.updates = st.updates]
                IN  /\ entities' = st.reg
                    /\ calls' = [calls EXCEPT ![t] =
                          IF st.raised THEN Exit(c1, "import_error")
                          ELSE IF st.idx > Len(events) THEN Exit(c1, "complete")
                          ELSE [c1 EXCEPT !.pc = "in_loop"]]
    /\ UNCHANGED <<devices, areas, export>>

\* notification_id of the persistent notification the handler asks for
NotificationId(outcome) ==
    IF outcome = "complete" THEN "ha_snapshot_import_result"
    ELSE "ha_snapshot_import_error"

\* the awaited hass.services.async_call returns and the handler returns
notification_created(t) ==
    /\ calls[t].pc = "await_notify"
    /\ calls' = [calls EXCEPT ![t].pc = "returned",
                              ![t].notification = NotificationId(calls[t].outcome)]
    /\ UNCHANGED <<entities, devices, areas, export>>

(***************************************************************************)
(* Bounded inputs of the import                                            *)
(***************************************************************************)
\* longest list of leaf entity records in a document
MaxRecords == 2

OtherOptions == [other_integration |-> [hidden |-> <<"yes">>]]

Entry(name, options, device_id, disabled_by) ==
    [name |-> name, options |-> options, device_id |-> device_id,
     disabled_by |-> disabled_by]

OwnAndOtherOptions == DictPut(OtherOptions, DOMAIN_KEY, [labels |-> <<"Lighting">>])
OwnNoteOptions == DictPut(EmptyDict, DOMAIN_KEY, [note |-> <<"keep">>])

\* name and options of light.kitchen in the live registries an import may find
KitchenStates ==
    { <<"Kitchen Light", OwnAndOtherOptions>>,
      <<"Kitchen Light", EmptyDict>>,
      <<None, OtherOptions>>,
      <<None, OwnNoteOptions>> }

ImportRegistries ==
    { [e \in {"light.kitchen", "sensor.porch"} |->
          IF e = "light.kitchen"
          THEN Entry(k[1], k[2], "dev_hub", None)
          ELSE Entry(None, OtherOptions, None, "user")]
      : k \in KitchenStates }

Leaf(entity_id, name, labels) ==
    [kind |-> "obj", entity_id |-> entity_id, name |-> name, labels |-> labels]

\* leaf entity records a document may hold; RaiseHere stands for a leaf that
\* is not a mapping
LeafRecords ==
    { Leaf(None, "Lamp", JList(<<"Lighting">>)),
      Leaf("sensor.ghost", "Lamp", JList(<<"Lighting">>)),
      RaiseHere,
      Leaf("light.kitchen", "Kitchen Light", JList(<<"Lighting">>)),
      Leaf("light.kitchen", "Kitchen Light", JNull),
      Leaf("light.kitchen", "Lamp", JList(<<>>)),
      Leaf("light.kitchen", "", JStr),
      Leaf("light.kitchen", None, JList(<<"Main">>)),
      Leaf("sensor.porch", "Porch Sensor", JList(<<"Lighting">>)) }

RecordLists == UNION { [1..n -> LeafRecords] : n \in 0..MaxRecords }

LList(items) == [kind |-> "list", items |-> items]
LAbsent == [kind |-> "absent", items |-> <<>>]
LBad == [kind |-> "bad", items |-> <<>>]

Dev(entities_) == [kind |-> "obj", entities |-> entities_]
Area(devices_) == [kind |-> "obj", devices |-> devices_]
Floor(areas_) == [kind |-> "obj", areas |-> areas_]
Doc(floors_) == [kind |-> "obj", floors |-> floors_]
BadDev == [kind |-> "bad", entities |-> LAbsent]
BadArea == [kind |-> "bad", devices |-> LAbsent]
BadFloor == [kind |-> "bad", areas |-> LAbsent]
BadDoc == [kind |-> "bad", floors |-> LAbsent]

First(recs) == IF recs = <<>> THEN <<>> ELSE <<Head(recs)>>
Rest(recs) == IF recs = <<>> THEN <<>> ELSE Tail(recs)

OneFloor(devs) == Doc(LList(<<Floor(LList(<<Area(LList(devs))>>))>>))

\* the documents built around one list of leaf records: the records in one
\* device, or split over two devices, areas or floors, or followed by a
\* malformed value at each depth of the nesting
DocsAround(recs) ==
    { OneFloor(<<Dev(LList(recs))>>),
      OneFloor(<<Dev(LList(First(recs))), Dev(LList(Rest(recs)))>>),
      Doc(LList(<<Floor(LList(<<Area(LList(<<Dev(LList(First(recs)))>>)),
                                Area(LList(<<Dev(LAbsent), Dev(LList(Rest(recs)))>>))>>))>>)),
      Doc(LList(<<Floor(LList(<<Area(LList(<<Dev(LList(First(recs)))>>))>>)),
                  Floor(LAbsent),
                  Floor(LList(<<Area(LAbsent), Area(LList(<<Dev(LList(Rest(recs)))>>))>>))>>)),
      OneFloor(<<Dev(LList(recs)), Dev(LBad)>>),
      OneFloor(<<Dev(LList(recs)), BadDev>>),
      Doc(LList(<<Floor(LList(<<Area(LList(<<Dev(LList(recs))>>)), BadArea>>))>>)),
      Doc(LList(<<Floor(LList(<<Area(LList(<<Dev(LList(recs))>>))>>)), BadFloor>>)) }

Documents ==
    UNION { DocsAround(recs) : recs \in RecordLists }
    \cup { BadDoc, Doc(LAbsent), Doc(LBad),
           Doc(LList(<<Floor(LBad)>>)), OneFloor(<<>>),
           Doc(LList(<<Floor(LList(<<Area(LBad)>>))>>)) }

\* the values of call.data["import_json"]
ImportTexts ==
    { [kind |-> "missing", doc |-> BadDoc], [kind |-> "garbage", doc |-> BadDoc] }
    \cup { [kind |-> "json", doc |-> d] : d \in Documents }

ImportCalls ==
    [import_json : ImportTexts, notify : BOOLEAN, fail_at : 0..MaxRecords]

NoExport ==
    [status |-> "none", data |-> [export_metadata |-> [generated_by |-> "none"], floors |-> <<>>],
     skip_nameless |-> TRUE, include_disabled |-> FALSE, lookup |-> "indexed",
     fallback |-> {}, notification |-> "none"]

(***************************************************************************)
(* One import against a live registry                                      *)
(***************************************************************************)
InitImport ==
    /\ entities \in ImportRegistries
    /\ devices = EmptyDict
    /\ areas = EmptyDict
    /\ calls = [t \in {1} |-> IdleCall]
    /\ export = NoExport

NextImport ==
    \/ \E t \in DOMAIN calls : handle_import_data(t, ImportCalls)
    \/ \E t \in DOMAIN calls : notification_created(t)

SpecImport == InitImport /\ [][NextImport]_vars

(***************************************************************************)
(* Properties of one import                                                *)
(***************************************************************************)
Finished(c) == c.outcome # "pending"

\* labels stored for an entry under this integration's key, [] when absent
StoredLabels(entry) ==
    DictGet(DictGet(entry.options, DOMAIN_KEY, EmptyDict), "labels", <<>>)

\* the number of leaf entity records of a document, counted over the nesting
ItemsOf(listval) == IF listval.kind = "list" THEN listval.items ELSE <<>>

RECURSIVE CountDevices(_)
CountDevices(devs) ==
    IF devs = <<>> THEN 0
    ELSE (IF Head(devs).kind = "obj" THEN Len(ItemsOf(Head(devs).entities)) ELSE 0)
         + CountDevices(Tail(devs))

RECURSIVE CountAreas(_)
CountAreas(as) ==
    IF as = <<>> THEN 0
    ELSE (IF Head(as).kind = "obj" THEN CountDevices(ItemsOf(Head(as).devices)) ELSE 0)
         + CountAreas(Tail(as))

RECURSIVE CountFloors(_)
CountFloors(fs) ==
    IF fs = <<>> THEN 0
    ELSE (IF Head(fs).kind = "obj" THEN CountAreas(ItemsOf(Head(fs).areas)) ELSE 0)
         + CountFloors(Tail(fs))

LeafCount(doc) == IF doc.kind = "obj" THEN CountFloors(ItemsOf(doc.floors)) ELSE 0

\* the document of a call holds exactly the one leaf record ent
SingleLeaf(c, ent) ==
    /\ c.import_json.kind = "json"
    /\ Traversal(c.import_json.doc) = <<ent>>
    /\ ent.kind = "obj"

\* ent repeats the name and the stored labels the live entity had
SameAsLive(ent, reg) ==
    /\ ent.entity_id \in DOMAIN reg
    /\ ent.name = reg[ent.entity_id].name
    /\ ent.labels.kind = "list"
    /\ ent.labels.items = StoredLabels(reg[ent.entity_id])

\* C1: a leaf record that names a live entity and repeats its current name and
\* its current stored labels is counted skipped, not applied, and
\* async_update_entity is not called for it.
C1_IdenticalRecordSkipped ==
    \A t \in DOMAIN calls : \A ent \in LeafRecords :
        (Finished(calls[t]) /\ SingleLeaf(calls[t], ent)
            /\ SameAsLive(ent, calls[t].before))
        => /\ calls[t].changes_skipped = 1
           /\ calls[t].changes_applied = 0
           /\ calls[t].attempts = <<>>

\* the input is not a document of the expected structure: text that does not
\* parse, or a value that is malformed somewhere in its nesting
Nonconforming(text) ==
    \/ text.kind = "garbage"
    \/ /\ text.kind = "json"
       /\ \E i \in DOMAIN Traversal(text.doc) : Traversal(text.doc)[i].kind # "obj"

\* C2: every nonconforming input ends in a terminal error with the registry
\* untouched and both counters at zero.
C2_NonconformingNoEffect ==
    \A t \in DOMAIN calls :
        (Finished(calls[t]) /\ Nonconforming(calls[t].import_json))
        => /\ calls[t].outcome \in {"parse_error", "import_error"}
           /\ entities = calls[t].before
           /\ calls[t].changes_applied = 0
           /\ calls[t].changes_skipped = 0

\* C3: when the traversal completes and the tally is reported, applied plus
\* skipped is the number of leaf entity records of the document.
C3_TallyCountsEveryLeaf ==
    \A t \in DOMAIN calls :
        calls[t].outcome = "complete"
        => calls[t].changes_applied + calls[t].changes_skipped
               = LeafCount(calls[t].import_json.doc)

C3_Witness ==
    \E t \in DOMAIN calls :
        /\ calls[t].outcome = "complete"
        /\ LeafCount(calls[t].import_json.doc) = 2
        /\ calls[t].changes_applied = 1
        /\ calls[t].changes_skipped = 1
        /\ "sensor.ghost" \in {calls[t].lookups[i] : i \in DOMAIN calls[t].lookups}

\* old and new differ at most in name and in options[DOMAIN]["labels"]
OnlyNameAndLabelsDiffer(old, new) ==
    /\ new.device_id = old.device_id
    /\ new.disabled_by = old.disabled_by
    /\ \A k \in ((DOMAIN old.options) \cup (DOMAIN new.options)) \ {DOMAIN_KEY} :
          /\ k \in DOMAIN old.options
          /\ k \in DOMAIN new.options
          /\ new.options[k] = old.options[k]
    /\ LET own_old == DictGet(old.options, DOMAIN_KEY, EmptyDict)
           own_new == DictGet(new.options, DOMAIN_KEY, EmptyDict)
       IN  \A k \in ((DOMAIN own_old) \cup (DOMAIN own_new)) \ {"labels"} :
              /\ k \in DOMAIN own_old
              /\ k \in DOMAIN own_new
              /\ own_new[k] = own_old[k]

\* the entity ids the leaf records of a call's document name
DocumentIds(c) ==
    IF c.import_json.kind # "json" THEN {}
    ELSE LET events == Traversal(c.import_json.doc)
         IN  {events[i].entity_id : i \in DOMAIN events}

\* C4: a run changes the registry only in the name and in the labels under
\* this integration's key, and only for entities the document names: the set
\* of entity ids is unchanged, no other field changes and every other key of
\* the options mapping keeps its value.
C4_OnlyNameAndOwnLabelsChange ==
    \A t \in DOMAIN calls :
        calls[t].pc # "idle"
        => /\ DOMAIN entities = DOMAIN calls[t].before
           /\ \A e \in DOMAIN entities :
                 /\ OnlyNameAndLabelsDiffer(calls[t].before[e], entities[e])
                 /\ e \notin DocumentIds(calls[t]) => entities[e] = calls[t].before[e]

C4_Witness ==
    \E t \in DOMAIN calls :
        /\ calls[t].outcome = "complete"
        /\ "other_integration" \in DOMAIN calls[t].before["light.kitchen"].options
        /\ entities["light.kitchen"].name # calls[t].before["light.kitchen"].name
        /\ StoredLabels(entities["light.kitchen"])
               # StoredLabels(calls[t].before["light.kitchen"])
        /\ entities["sensor.porch"] = calls[t].before["sensor.porch"]

\* async_update_entity raised in this call
UpdateRaised(c) ==
    /\ c.outcome = "import_error"
    /\ c.fail_at > 0
    /\ Len(c.attempts) = c.fail_at
    /\ Len(c.updates) < Len(c.attempts)

\* the run of the records before the one at which the call stopped
BeforeFailure(c) ==
    RunLoop(LoopState(c.before, IdleCall), Traversal(c.import_json.doc),
            1, c.idx - 1, 0)

\* C5: when async_update_entity raises at the k-th leaf record, the entities
\* updated by records 1..k-1 keep the name and labels those records gave
\* them, no later record is looked up or applied, and the run ends in the
\* terminal error.
C5_FailureKeepsEarlierUpdates ==
    \A t \in DOMAIN calls :
        UpdateRaised(calls[t])
        => LET c == calls[t]
               pre == BeforeFailure(c)
               k == c.idx - 1
           IN  /\ \A i \in DOMAIN c.updates :
                     /\ entities[c.updates[i]].name = pre.reg[c.updates[i]].name
                     /\ StoredLabels(entities[c.updates[i]])
                            = StoredLabels(pre.reg[c.updates[i]])
               /\ c.updates = pre.updates
               /\ c.lookups = Append(pre.lookups,
                                     Traversal(c.import_json.doc)[k].entity_id)
               /\ c.notification # "ha_snapshot_import_result"

\* the same, for runs in which the failing record names an entity that no
\* earlier record of the run updated
C5_AsideFromSameEntity ==
    \A t \in DOMAIN calls :
        (UpdateRaised(calls[t])
            /\ \A i \in DOMAIN calls[t].updates :
                  calls[t].updates[i] # calls[t].attempts[Len(calls[t].attempts)])
        => LET c == calls[t]
               pre == BeforeFailure(c)
           IN  /\ \A e \in DOMAIN entities : e # c.attempts[Len(c.attempts)]
                     => entities[e] = pre.reg[e]
               /\ c.updates = pre.updates

(***************************************************************************)
(* gather_ha_data, lines 278-393                                           *)
(***************************************************************************)
\* iteration order of the registries' dicts
AreaOrder == <<"kitchen", "unassigned">>
DeviceOrder == <<"dev_hub", "dev_helper">>
EntityOrder == <<"light.kitchen", "sensor.porch">>

\* the keys of dict d, in iteration order
Keys(order, d) == LET Present(k) == k \in DOMAIN d IN SelectSeq(order, Present)

UnassignedBlock == [area_id |-> "unassigned", name |-> "Unassigned", devices |-> <<>>]

RECURSIVE AreaBlocks(_, _)
AreaBlocks(ids, area_reg) ==
    IF ids = <<>> THEN <<>>
    ELSE <<[area_id |-> Head(ids), name |-> area_reg[Head(ids)].name, devices |-> <<>>]>>
         \o AreaBlocks(Tail(ids), area_reg)

InAreaMap(area_map, a_id) == \E i \in DOMAIN area_map : area_map[i].area_id = a_id

AreaIndex(area_map, a_id) == CHOOSE i \in DOMAIN area_map : area_map[i].area_id = a_id

\* lines 325-339: one block per area, then area_map["unassigned"] = {...},
\* which takes the place of an area whose own id is "unassigned"
SeedAreaMap(area_reg) ==
    LET seeded == AreaBlocks(Keys(AreaOrder, area_reg), area_reg)
    IN  IF InAreaMap(seeded, "unassigned")
        THEN [seeded EXCEPT ![AreaIndex(seeded, "unassigned")] = UnassignedBlock]
        ELSE Append(seeded, UnassignedBlock)

\* a variant that tests only the name
Skipped_NameOnly(device, skip_nameless) == skip_nameless /\ ~Truthy(device.name)

\* `if skip_nameless and (not device.name or not device.manufacturer)`
Skipped(device, skip_nameless) ==
    skip_nameless /\ (~Truthy(device.name) \/ ~Truthy(device.manufacturer))

\* a variant that files every device under "unassigned"
TargetArea_AlwaysUnassigned(device, area_map) == "unassigned"

\* lines 346-348: a_id = device.area_id or "unassigned"; an id that is not in
\* area_map becomes "unassigned"
TargetArea(device, area_map) ==
    LET a_id == IF Truthy(device.area_id) THEN device.area_id ELSE "unassigned"
    IN  IF InAreaMap(area_map, a_id) THEN a_id ELSE "unassigned"

\* the host's entity_registry.async_entries_for_device(dev_id,
\* include_disabled_entities=...): the entries owned by the device, without
\* the disabled ones unless they are asked for
async_entries_for_device(ent_reg, dev_id, include_disabled) ==
    LET Owned(e) == /\ ent_reg[e].device_id = dev_id
                    /\ (include_disabled \/ ~Truthy(ent_reg[e].disabled_by))
    IN  SelectSeq(Keys(EntityOrder, ent_reg), Owned)

\* a variant that leaves the disabled filter out of the scan
LinearScan_Unfiltered(ent_reg, dev_id, include_disabled) ==
    LET Owned(e) == ent_reg[e].device_id = dev_id
    IN  SelectSeq(Keys(EntityOrder, ent_reg), Owned)

\* lines 359-363: [e for e in entity_registry.entities.values()
\*   if e.device_id == dev_id and (include_disabled or not e.disabled_by)]
LinearScan(ent_reg, dev_id, include_disabled) ==
    LET Owned(e) == /\ ent_reg[e].device_id = dev_id
                    /\ (include_disabled \/ ~Truthy(ent_reg[e].disabled_by))
    IN  SelectSeq(Keys(EntityOrder, ent_reg), Owned)

\* How the indexed lookup behaves on this host: "indexed" it runs,
\* "missing" the registry has no such attribute (AttributeError at the
\* attribute access), "raises_attribute_error" it exists and raises
\* AttributeError while running, "raises_other" it exists and raises another
\* exception.
LookupModes == {"indexed", "missing", "raises_attribute_error", "raises_other"}

\* `except AttributeError:` catches the AttributeError of a missing
\* attribute and one raised inside the lookup alike
UsesFallback(lookup) == lookup \in {"missing", "raises_attribute_error"}

\* e.entity_id.split(".")[0]
DomainOf(entity_id) ==
    CASE entity_id = "light.kitchen" -> "light"
      [] entity_id = "sensor.porch" -> "sensor"
      [] OTHER -> entity_id

\* lines 366-374
RECURSIVE EntityBlocks(_, _)
EntityBlocks(ids, ent_reg) ==
    IF ids = <<>> THEN <<>>
    ELSE LET e == ent_reg[Head(ids)]
         IN  <<[entity_id |-> Head(ids),
                name |-> IF Truthy(e.name) THEN e.name ELSE "",
                domain |-> DomainOf(Head(ids)),
                labels |-> StoredLabels(e),
                disabled |-> Truthy(e.disabled_by)]>>
             \o EntityBlocks(Tail(ids), ent_reg)

\* the loop over device_registry.devices.items(), lines 342-382; g holds
\* area_map, whether an exception left the function, and the devices whose
\* entities came from the linear scan
RECURSIVE ProcessDevices(_, _, _, _, _)
ProcessDevices(g, ids, skip_nameless, include_disabled, lookup) ==
    IF ids = <<>> \/ g.raised THEN g
    ELSE LET dev_id == Head(ids)
             device == devices[dev_id]
             rest == Tail(ids)
         IN  IF Skipped(device, skip_nameless)
             THEN ProcessDevices(g, rest, skip_nameless, include_disabled, lookup)
             ELSE IF lookup = "indexed" \/ UsesFallback(lookup)
             THEN LET a_id == TargetArea(device, g.area_map)
                      dev_entities ==
                          IF lookup = "indexed"
                          THEN async_entries_for_device(entities, dev_id, include_disabled)
                          ELSE LinearScan(entities, dev_id, include_disabled)
                      block == [device_id |-> dev_id, name |-> device.name,
                                manufacturer |-> device.manufacturer,
                                model |-> device.model,
                                entities |-> EntityBlocks(dev_entities, entities)]
                      i == AreaIndex(g.area_map, a_id)
                 IN  ProcessDevices(
                        [g EXCEPT !.area_map[i].devices = Append(@, block),
                                  !.fallback = IF lookup = "indexed" THEN @
                                               ELSE @ \cup {dev_id}],
                        rest, skip_nameless, include_disabled, lookup)
             ELSE [g EXCEPT !.raised = TRUE]

gather_ha_data(skip_nameless, include_disabled, lookup) ==
    LET g == ProcessDevices([area_map |-> SeedAreaMap(areas), raised |-> FALSE,
                             fallback |-> {}, notification |-> "none"],
                            Keys(DeviceOrder, devices),
                            skip_nameless, include_disabled, lookup)
    IN  [raised |-> g.raised,
         fallback |-> g.fallback,
         data |-> [export_metadata |->
                      [generated_by |-> "HA Snapshot",
                       skip_nameless_devices |-> skip_nameless,
                       include_disabled_entities |-> include_disabled],
                   floors |-> <<[floor_id |-> "floor_1", name |-> "Default Floor",
                                 areas |-> g.area_map]>>]]

NoData == [export_metadata |-> [generated_by |-> "none"], floors |-> <<>>]

\* handle_export_data, lines 100-158: the options of the config entry, the
\* call of gather_ha_data inside try, the snapshot written to the file, or
\* "Export failed" logged and nothing written; with notify, the persistent
\* notification of the outcome
handle_export_data(skip_nameless, include_disabled, lookup, notify) ==
    /\ export.status = "none"
    /\ LET r == gather_ha_data(skip_nameless, include_disabled, lookup)
       IN  export' = [status |-> IF r.raised THEN "failed" ELSE "exported",
                      data |-> IF r.raised THEN NoData ELSE r.data,
                      skip_nameless |-> skip_nameless,
                      include_disabled |-> include_disabled,
                      lookup |-> lookup,
                      fallback |-> r.fallback,
                      notification |-> IF ~notify THEN "none"
                                       ELSE IF r.raised THEN "ha_snapshot_export_error"
                                       ELSE "ha_snapshot_export"]
    /\ UNCHANGED <<entities, devices, areas, calls>>

(***************************************************************************)
(* Bounded registries of the export                                        *)
(***************************************************************************)
Device(name, manufacturer, area_id) ==
    [name |-> name, manufacturer |-> manufacturer, model |-> "M1", area_id |-> area_id]

HubStates ==
    { Device(n, m, a) : n \in {None, "", "Hub"}, m \in {None, "Acme"},
                        a \in {None, "kitchen", "attic", "unassigned"} }

HelperStates == { Device(None, "Acme", "kitchen"), Device("Helper", "Acme", "kitchen") }

DeviceRegistries ==
    { [d \in {"dev_hub"} |-> h] : h \in HubStates }
    \cup { [d \in {"dev_helper"} |-> p] : p \in HelperStates }
    \cup { [d \in {"dev_hub", "dev_helper"} |-> IF d = "dev_hub" THEN h ELSE p]
             : h \in HubStates, p \in HelperStates }

AreaRegistries ==
    { [a \in ids |-> [name |-> IF a = "kitchen" THEN "Kitchen" ELSE "Spare"]]
        : ids \in {{}, {"kitchen"}, {"kitchen", "unassigned"}} }

ExportEntityRegistries ==
    { [e \in {"sensor.porch"} |-> Entry(None, EmptyDict, "dev_hub", dp)]
        : dp \in {None, "user"} }
    \cup { [e \in {"light.kitchen", "sensor.porch"} |->
               IF e = "light.kitchen"
               THEN Entry("Kitchen Light", OwnAndOtherOptions, dk, dbk)
               ELSE Entry(None, EmptyDict, "dev_hub", dp)]
             : dk \in {None, "dev_hub", "dev_helper"}, dbk \in {None, "user"},
               dp \in {None, "user"} }

InitExport ==
    /\ entities \in ExportEntityRegistries
    /\ devices \in DeviceRegistries
    /\ areas \in AreaRegistries
    /\ calls = <<>>
    /\ export = NoExport

NextExport ==
    \E skip_nameless \in BOOLEAN, include_disabled \in BOOLEAN,
       lookup \in LookupModes, notify \in BOOLEAN :
        handle_export_data(skip_nameless, include_disabled, lookup, notify)

SpecExport == InitExport /\ [][NextExport]_vars

(***************************************************************************)
(* Properties of the exported document                                     *)
(***************************************************************************)
Exported == export.status = "exported"

ExportedAreas == export.data.floors[1].areas

\* the places <<area block, position>> at which a device has a DeviceBlock
Occurrences(dev_id) ==
    { <<i, j>> \in (DOMAIN ExportedAreas) \X (1..Cardinality(DOMAIN devices)) :
         /\ j \in DOMAIN ExportedAreas[i].devices
         /\ ExportedAreas[i].devices[j].device_id = dev_id }

\* the entity ids listed in the DeviceBlock at place p
ListedAt(p) ==
    LET ents == ExportedAreas[p[1]].devices[p[2]].entities
    IN  {ents[k].entity_id : k \in DOMAIN ents}

\* the entity ids listed anywhere in the document
ListedAnywhere ==
    UNION { ListedAt(p) : p \in UNION { Occurrences(d) : d \in DOMAIN devices } }

NamedAndMade(d) == devices[d].name \notin {None, ""} /\ devices[d].manufacturer \notin {None, ""}

PassesFilter(d) == ~export.skip_nameless \/ NamedAndMade(d)

\* C6: a device has a DeviceBlock in the returned document iff skip_nameless
\* is false or the device has a non-empty name and a non-empty manufacturer;
\* an excluded device contributes no DeviceBlock and no EntityBlock.
C6_DeviceFilter ==
    Exported =>
        \A d \in DOMAIN devices :
            /\ (Occurrences(d) # {}) <=> PassesFilter(d)
            /\ ~PassesFilter(d) =>
                  \A e \in DOMAIN entities :
                      entities[e].device_id = d => e \notin ListedAnywhere

C6_Witness ==
    /\ Exported
    /\ export.skip_nameless
    /\ "dev_hub" \in DOMAIN devices /\ ~NamedAndMade("dev_hub")
    /\ \E e \in DOMAIN entities : entities[e].device_id = "dev_hub"
    /\ "dev_helper" \in DOMAIN devices /\ Occurrences("dev_helper") # {}

\* C7: every included device appears in exactly one AreaBlock, that of its
\* area reference when the reference names a known area and otherwise the
\* block "unassigned"; every AreaBlock's area_id is a known area id or
\* "unassigned".
C7_AreaPartition ==
    Exported =>
        /\ \A d \in DOMAIN devices :
              PassesFilter(d) =>
                 /\ Cardinality(Occurrences(d)) = 1
                 /\ \A p \in Occurrences(d) :
                       ExportedAreas[p[1]].area_id =
                           IF devices[d].area_id \in DOMAIN areas
                           THEN devices[d].area_id ELSE "unassigned"
        /\ \A i \in DOMAIN ExportedAreas :
              ExportedAreas[i].area_id \in (DOMAIN areas) \cup {"unassigned"}

C7_Witness ==
    /\ Exported
    /\ {"dev_hub", "dev_helper"} \subseteq DOMAIN devices
    /\ devices["dev_hub"].area_id = "attic"
    /\ "kitchen" \in DOMAIN areas
    /\ \E p \in Occurrences("dev_hub") : ExportedAreas[p[1]].area_id = "unassigned"
    /\ \E p \in Occurrences("dev_helper") : ExportedAreas[p[1]].area_id = "kitchen"

\* entity e is listed in the DeviceBlock of its owning device
ListedUnderOwner(e) ==
    \E p \in Occurrences(entities[e].device_id) : e \in ListedAt(p)

\* C8: an entity with a disabled-reason whose device is included is listed
\* under that device iff include_disabled is true, with the indexed lookup and
\* with the linear scan; an entity without one is listed either way.
C8_DisabledGating ==
    Exported =>
        \A e \in DOMAIN entities :
            (entities[e].device_id \in DOMAIN devices /\ PassesFilter(entities[e].device_id))
            => IF entities[e].disabled_by # None
               THEN ListedUnderOwner(e) <=> export.include_disabled
               ELSE ListedUnderOwner(e)

C8_Witness ==
    /\ Exported
    /\ export.lookup = "missing"
    /\ ~export.include_disabled
    /\ \E e \in DOMAIN entities :
          /\ entities[e].disabled_by # None
          /\ entities[e].device_id \in export.fallback
          /\ ~ListedUnderOwner(e)
    /\ \E e \in DOMAIN entities :
          /\ entities[e].disabled_by = None
          /\ entities[e].device_id \in export.fallback
          /\ ListedUnderOwner(e)

\* C9: the linear scan is used for a device exactly when the indexed lookup
\* is unavailable; when the lookup exists and raises, whatever it raises, the
\* scan is not used and the export is aborted without a document.
C9_FallbackOnlyWhenUnavailable ==
    export.status # "none" =>
        /\ \A d \in DOMAIN devices :
              d \in export.fallback <=> (export.lookup = "missing" /\ PassesFilter(d))
        /\ (export.lookup \in {"raises_attribute_error", "raises_other"}
              /\ \E d \in DOMAIN devices : PassesFilter(d))
           => export.status = "failed"

(***************************************************************************)
(* Two overlapping imports on one event loop                               *)
(***************************************************************************)
\* records that set the name or the labels of the same entity
OverlappingRecords ==
    { Leaf("light.kitchen", "Lamp", JNull),
      Leaf("light.kitchen", "Kitchen Light", JNull),
      Leaf("light.kitchen", None, JList(<<"Lighting">>)),
      Leaf("light.kitchen", None, JList(<<"Main">>)) }

ConcurrentDocuments ==
    { OneFloor(<<Dev(LList(p))>>)
        : p \in { q \in OverlappingRecords \X OverlappingRecords : q[1] # q[2] } }

ConcurrentCalls ==
    [import_json : { [kind |-> "json", doc |-> d] : d \in ConcurrentDocuments },
     notify : BOOLEAN, fail_at : {0, 2}]

InitConcurrent ==
    /\ entities \in ImportRegistries
    /\ devices = EmptyDict
    /\ areas = EmptyDict
    /\ calls = [t \in {1, 2} |-> IdleCall]
    /\ export = NoExport

NextConcurrent ==
    \/ \E t \in DOMAIN calls : handle_import_data(t, ConcurrentCalls)
    \/ \E t \in DOMAIN calls : notification_created(t)

SpecConcurrent == InitConcurrent /\ [][NextConcurrent]_vars

\* the registry after the whole import of call c, run alone on registry reg
AloneOn(reg, c) ==
    LET events == Traversal(c.import_json.doc)
    IN  RunLoop(LoopState(reg, IdleCall), events, 1, Len(events) + 1, c.fail_at).reg

\* C10: two overlapping imports never interleave their lookups and updates:
\* no call is suspended inside its traversal, and once both have run the
\* registry is the one that running them one after the other gives.
C10_ImportsSerialize ==
    /\ \A t \in DOMAIN calls : calls[t].pc # "in_loop"
    /\ \A a \in DOMAIN calls : \A b \in DOMAIN calls :
          (calls[a].started = 1 /\ calls[b].started = 2
              /\ Finished(calls[a]) /\ Finished(calls[b]))
          => entities = AloneOn(AloneOn(calls[a].before, calls[a]), calls[b])

C10_Witness ==
    /\ calls[2].started = 1
    /\ calls[1].started = 2
    /\ calls[1].pc = "returned" /\ calls[2].pc = "await_notify"
    /\ Len(calls[1].updates) = 2 /\ Len(calls[2].updates) = 2
    /\ calls[1].import_json # calls[2].import_json
    /\ entities # AloneOn(calls[2].before, calls[2])
    /\ entities # AloneOn(calls[2].before, calls[1])
    /\ entities # AloneOn(AloneOn(calls[2].before, calls[1]), calls[2])

====
